---- MODULE Spec2Model ----
(***************************************************************************)
(* Model of src/image_scanner.py, the PNG resolution scanner:              *)
(*   get_png_resolutions -> display_results -> (prompt) create_csv_report  *)
(* File names are sequences of one-character strings, so that splitext,    *)
(* sorted(), lower() and strip() are computed character by character.      *)
(***************************************************************************)
EXTENDS Integers, Sequences, FiniteSets, TLC

VARIABLES
    pathKind,    \* what folder_path names: "missing", "dir" or "notdir"
    dirEntries,  \* the names os.listdir would return (a set: order is the OS's choice)
    pc,          \* position of the running function
    queue,       \* the part of sorted(png_files) the for loop has not reached yet
    img,         \* (width, height) read inside the with block
    openFiles,   \* the image files whose handle is open
    image_data,  \* the list of (filename, width, height, file_size_mb)
    outcome,     \* per name: how its decode and stat went (history of the environment)
    out,         \* everything printed so far, one record per print call
    reply,       \* the line input() returned
    csvFile,     \* the output file: does it exist, and its rows
    csvFailed    \* an exception was raised inside create_csv_report's try block

vars == <<pathKind, dirEntries, pc, queue, img, openFiles, image_data, outcome,
          out, reply, csvFile, csvFailed>>

-----------------------------------------------------------------------------
(* Bounds *)

MaxFiles == 2         \* directory entries in a run of main
MaxDim == 1           \* width and height of a decoded image in a run of main
MaxNameLen == 6       \* length of a file name given to the extension filter
MaxAspectDim == 16    \* width and height given to the aspect-ratio computation
MaxRecs == 2          \* records in a list handed directly to the report functions

-----------------------------------------------------------------------------
(* Characters and strings *)

\* Code points, as Python compares str values.
Ord == (" " :> 32) @@ ("." :> 46) @@ ("B" :> 66) @@ ("E" :> 69) @@ ("G" :> 71) @@
       ("N" :> 78) @@ ("P" :> 80) @@ ("S" :> 83) @@ ("Y" :> 89) @@ ("a" :> 97) @@
       ("b" :> 98) @@ ("c" :> 99) @@ ("e" :> 101) @@ ("g" :> 103) @@ ("n" :> 110) @@
       ("o" :> 111) @@ ("p" :> 112) @@ ("s" :> 115) @@ ("t" :> 116) @@ ("x" :> 120) @@
       ("y" :> 121)

\* str < str: the first differing character decides, a proper prefix is smaller.
RECURSIVE StrLess(_, _)
StrLess(s, t) ==
    IF t = <<>> THEN FALSE
    ELSE IF s = <<>> THEN TRUE
    ELSE IF Head(s) # Head(t) THEN Ord[Head(s)] < Ord[Head(t)]
    ELSE StrLess(Tail(s), Tail(t))

\* str.lower() on the characters that occur here.
LowerChar(c) ==
    CASE c = "B" -> "b" [] c = "E" -> "e" [] c = "G" -> "g" [] c = "N" -> "n"
      [] c = "P" -> "p" [] c = "S" -> "s" [] c = "Y" -> "y" [] OTHER -> c

Lower(s) == [i \in 1..Len(s) |-> LowerChar(s[i])]

IsSpace(c) == c = " "

\* str.strip(): drop leading and trailing whitespace.
RECURSIVE LStrip(_)
LStrip(s) == IF s # <<>> /\ IsSpace(Head(s)) THEN LStrip(Tail(s)) ELSE s

RECURSIVE RStrip(_)
RStrip(s) ==
    IF s # <<>> /\ IsSpace(s[Len(s)]) THEN RStrip(SubSeq(s, 1, Len(s) - 1)) ELSE s

Strip(s) == RStrip(LStrip(s))

-----------------------------------------------------------------------------
(* The extension filter *)

Ext_png == <<".", "p", "n", "g">>
Ext_PNG == <<".", "P", "N", "G">>

supported_formats == {Ext_png, Ext_PNG}

\* str.rfind of one character, 1-based; 0 when absent.
RFind(p, c) ==
    LET hits == {i \in 1..Len(p) : p[i] = c}
    IN  IF hits = {} THEN 0 ELSE CHOOSE i \in hits : \A j \in hits : j <= i

\* os.path.splitext on a name without a path separator: the extension starts at
\* the last dot, unless only dots precede that dot (then there is no extension).
SplitExt(p) ==
    LET dotIndex == RFind(p, ".")
    IN  IF dotIndex > 0 /\ \E i \in 1..(dotIndex - 1) : p[i] # "."
        THEN <<SubSeq(p, 1, dotIndex - 1), SubSeq(p, dotIndex, Len(p))>>
        ELSE <<p, <<>>>>

EndsWith(s, suffix) ==
    /\ Len(s) >= Len(suffix)
    /\ SubSeq(s, Len(s) - Len(suffix) + 1, Len(s)) = suffix

\* the filter of a scanner that lowercases the extension before matching
IsCandidateAnyCase(f) == Lower(SplitExt(f)[2]) = Ext_png

\* the condition of the list comprehension that builds png_files
IsCandidate(f) == SplitExt(f)[2] \in supported_formats

\* the list comprehension: the entries that pass, in listing order
PngFiles(files) == SelectSeq(files, IsCandidate)

-----------------------------------------------------------------------------
(* sorted() *)

RECURSIVE Insert(_, _)
Insert(x, s) ==
    IF s = <<>> THEN <<x>>
    ELSE IF StrLess(x, Head(s)) THEN <<x>> \o s
    ELSE <<Head(s)>> \o Insert(x, Tail(s))

RECURSIVE SortedNames(_)
Unsorted(names) == names

SortedNames(names) ==
    IF names = <<>> THEN <<>> ELSE Insert(Head(names), SortedNames(Tail(names)))

\* every order in which os.listdir may return the entries
Listings(S) ==
    {s \in [1..Cardinality(S) -> S] : \A i, j \in DOMAIN s : i # j => s[i] # s[j]}

-----------------------------------------------------------------------------
(* Records and the arithmetic of the report *)

BytesPerMB == 1048576      \* 1024 * 1024
LargeFileMB == 2           \* the "> 2.0" threshold of large_files

\* A record is the tuple (filename, width, height, file_size_mb). file_size_mb is
\* kept as the byte count it was computed from: file_size / BytesPerMB.
Rec(filename, width, height, file_size) == <<filename, width, height, file_size>>

\* Nearest integer to n / d, ties to even (n >= 0, d > 0): what round() and the
\* .2f format do to a value that is exact in binary floating point.
RoundHalfEven(n, d) ==
    LET q == n \div d
        r == n % d
    IN  IF 2 * r < d THEN q
        ELSE IF 2 * r > d THEN q + 1
        ELSE IF q % 2 = 0 THEN q ELSE q + 1

Truncate(n, d) == n \div d

\* round(width / height, 2) if height != 0 else 0, in hundredths. The quotient
\* of two integers below 40 is either exact in binary (a multiple of 1/8) or
\* not a tie, so ties-to-even on the exact quotient is what the float gives.
ConsoleAspectRatio(width, height) ==
    IF height # 0 THEN RoundHalfEven(100 * width, height) ELSE 0

CsvAspectTruncated(width, height) ==
    IF height # 0 THEN Truncate(100 * width, height) ELSE 0

CsvAspectRatio(width, height) ==
    IF height # 0 THEN RoundHalfEven(100 * width, height) ELSE 0

\* f"{file_size:<10.2f}" and f"{total_size:.2f}", in hundredths of a megabyte
Mb2f(bytes) == RoundHalfEven(100 * bytes, BytesPerMB)

Area(x) == x[2] * x[3]

\* max(image_data, key=area): the first element whose key no later one exceeds
\* strictly, i.e. the earliest of the maximal ones.
RECURSIVE MaxFrom(_, _)
MaxFrom(best, rest) ==
    IF rest = <<>> THEN best
    ELSE IF Area(Head(rest)) > Area(best) THEN MaxFrom(Head(rest), Tail(rest))
    ELSE MaxFrom(best, Tail(rest))

RECURSIVE MaxFromLast(_, _)
MaxFromLast(best, rest) ==
    IF rest = <<>> THEN best
    ELSE IF Area(Head(rest)) >= Area(best) THEN MaxFromLast(Head(rest), Tail(rest))
    ELSE MaxFromLast(best, Tail(rest))

LastLargest(data) == MaxFromLast(Head(data), Tail(data))

Largest(data) == MaxFrom(Head(data), Tail(data))

\* min(image_data, key=area): the earliest of the minimal ones.
RECURSIVE MinFrom(_, _)
MinFrom(best, rest) ==
    IF rest = <<>> THEN best
    ELSE IF Area(Head(rest)) < Area(best) THEN MinFrom(Head(rest), Tail(rest))
    ELSE MinFrom(best, Tail(rest))

Smallest(data) == MinFrom(Head(data), Tail(data))

RECURSIVE TotalBytes(_)
TotalBytes(data) == IF data = <<>> THEN 0 ELSE Head(data)[4] + TotalBytes(Tail(data))

IsLargeFile(item) == item[4] > LargeFileMB * BytesPerMB

-----------------------------------------------------------------------------
(* display_results *)

Line(k) == [kind |-> k]

TableRow(x) ==
    [kind |-> "row", filename |-> x[1], width |-> x[2], height |-> x[3],
     size |-> Mb2f(x[4]), aspect |-> ConsoleAspectRatio(x[2], x[3])]

TableRows(data) == [i \in 1..Len(data) |-> TableRow(data[i])]

LargeFileLines(data) ==
    LET large_files == SelectSeq(data, IsLargeFile)
    IN  IF large_files = <<>> THEN <<>>
        ELSE <<[kind |-> "large_count", count |-> Len(large_files)]>> \o
             [i \in 1..Len(large_files) |->
                 [kind |-> "large_file", filename |-> large_files[i][1],
                  size |-> Mb2f(large_files[i][4])]]

ReportBody(data) ==
    <<Line("report_rule"), Line("report_title"), Line("report_rule"),
      Line("table_header"), Line("table_rule")>> \o
    TableRows(data) \o
    <<Line("table_rule"),
      [kind |-> "total_files", count |-> Len(data)],
      [kind |-> "total_size", size |-> Mb2f(TotalBytes(data))],
      [kind |-> "largest", filename |-> Largest(data)[1],
       width |-> Largest(data)[2], height |-> Largest(data)[3]],
      [kind |-> "smallest", filename |-> Smallest(data)[1],
       width |-> Smallest(data)[2], height |-> Smallest(data)[3]]>> \o
    LargeFileLines(data)

ReportLinesUnguarded(data) ==
    IF data = <<>> THEN <<Line("report_rule"), Line("report_title")>>
    ELSE ReportBody(data)

\* everything display_results prints: nothing at all for an empty list
ReportLines(data) == IF data = <<>> THEN <<>> ELSE ReportBody(data)

-----------------------------------------------------------------------------
(* create_csv_report *)

CsvHeader ==
    [kind |-> "header",
     cols |-> <<"Filename", "Width", "Height", "Size_MB", "Aspect_Ratio">>]

CsvRow(x) ==
    [kind |-> "data", filename |-> x[1], width |-> x[2], height |-> x[3],
     size |-> x[4], aspect |-> CsvAspectRatio(x[2], x[3])]

CsvLinesNoHeader(data) == [i \in 1..Len(data) |-> CsvRow(data[i])]

\* the rows the writer is given, in the order it is given them
CsvLines(data) == <<CsvHeader>> \o [i \in 1..Len(data) |-> CsvRow(data[i])]

NoFile == [exists |-> FALSE, rows |-> <<>>]

-----------------------------------------------------------------------------
(* The inputs of a run of main *)

\* directory entries a scanned folder may hold
Names ==
    { <<"a", ".", "p", "n", "g">>,          \* a.png
      <<"a", ".", "P", "N", "G">>,          \* a.PNG
      <<"B", ".", "p", "n", "g">>,          \* B.png
      <<"c", ".", "P", "n", "g">>,          \* c.Png
      <<".", "p", "n", "g">>,               \* .png
      <<"a", ".", "t", "x", "t">> }         \* a.txt

\* os.path.getsize results: half a megabyte, three megabytes
Sizes == {524288, 3145728}

\* lines input() may return
Replies ==
    { <<>>, <<"y">>, <<"Y", "E", "S">>, <<" ", "y", " ">>, <<"Y", "e", "s", " ">>,
      <<"n">>, <<"y", "e">>, <<"y", " ", "e", "s">> }

\* create_report in ['y', 'yes'], with create_report = input(...).lower().strip()
ExportOnExactYes(line) == line \in {<<"y">>, <<"y", "e", "s">>}

WantsExport(line) == Strip(Lower(line)) \in {<<"y">>, <<"y", "e", "s">>}

Untouched == [f \in Names |-> "untouched"]


-----------------------------------------------------------------------------
(* main, lines 123-132: the banner *)

Banner ==
    /\ pc = "start"
    /\ out' = out \o <<Line("title"), Line("title_rule"), Line("scanning"),
                       Line("looking_for")>>
    /\ pc' = "scan"
    /\ UNCHANGED <<pathKind, dirEntries, queue, img, openFiles, image_data,
                   outcome, reply, csvFile, csvFailed>>

(* get_png_resolutions, lines 24-39: existence test, listing, filter, sort.   *)
(* os.listdir raises on a path that exists and is no directory; nothing in    *)
(* get_png_resolutions or main catches it.                                     *)
Scan ==
    /\ pc = "scan"
    /\ IF pathKind = "missing"
       THEN /\ out' = out \o <<Line("folder_not_found")>>
            /\ pc' = "display"
            /\ queue' = <<>>
       ELSE IF pathKind = "notdir"
       THEN /\ out' = out \o <<Line("traceback")>>
            /\ pc' = "crashed"
            /\ queue' = <<>>
       ELSE \E files \in Listings(dirEntries) :
                LET png_files == PngFiles(files)
                IN  IF png_files = <<>>
                    THEN /\ out' = out \o <<Line("no_png_found"), Line("looking_hint")>>
                         /\ pc' = "display"
                         /\ queue' = <<>>
                    ELSE /\ out' = out \o <<[kind |-> "found", count |-> Len(png_files)]>>
                         /\ pc' = "loop"
                         /\ queue' = SortedNames(png_files)
    /\ image_data' = <<>>
    /\ UNCHANGED <<pathKind, dirEntries, img, openFiles, outcome, reply, csvFile,
                   csvFailed>>

ErrorLine(filename) == [kind |-> "error_processing", filename |-> filename]

\* a loop that stops at the first file it cannot decode
OpenImageFailsAndStops ==
    /\ pc = "loop"
    /\ queue # <<>>
    /\ outcome' = [outcome EXCEPT ![Head(queue)] = "decode_failed"]
    /\ out' = out \o <<ErrorLine(Head(queue))>>
    /\ queue' = <<>>
    /\ UNCHANGED <<pathKind, dirEntries, pc, img, openFiles, image_data, reply,
                   csvFile, csvFailed>>

(* line 46, Image.open raises: the decoder closes what it opened before it    *)
(* raises, no image object reaches the with statement; line 56 prints.        *)
OpenImageFails ==
    /\ pc = "loop"
    /\ queue # <<>>
    /\ outcome' = [outcome EXCEPT ![Head(queue)] = "decode_failed"]
    /\ out' = out \o <<ErrorLine(Head(queue))>>
    /\ queue' = Tail(queue)
    /\ UNCHANGED <<pathKind, dirEntries, pc, img, openFiles, image_data, reply,
                   csvFile, csvFailed>>

(* lines 46-47: the with block is entered and img.size is read *)
OpenImage ==
    /\ pc = "loop"
    /\ queue # <<>>
    /\ \E width \in 0..MaxDim, height \in 0..MaxDim : img' = <<width, height>>
    /\ openFiles' = openFiles \cup {Head(queue)}
    /\ pc' = "with_exit"
    /\ UNCHANGED <<pathKind, dirEntries, queue, image_data, outcome, out, reply,
                   csvFile, csvFailed>>

HandleLeaked(opened, filename) == opened

\* the handles left open when the with block of `filename` is left
AfterWith(opened, filename) == opened \ {filename}

(* leaving the with block *)
CloseImage ==
    /\ pc = "with_exit"
    /\ openFiles' = AfterWith(openFiles, Head(queue))
    /\ pc' = "stat"
    /\ UNCHANGED <<pathKind, dirEntries, queue, img, image_data, outcome, out,
                   reply, csvFile, csvFailed>>

(* line 50, os.path.getsize raises; line 56 prints, nothing was appended *)
StatFails ==
    /\ pc = "stat"
    /\ outcome' = [outcome EXCEPT ![Head(queue)] = "stat_failed"]
    /\ out' = out \o <<ErrorLine(Head(queue))>>
    /\ queue' = Tail(queue)
    /\ pc' = "loop"
    /\ UNCHANGED <<pathKind, dirEntries, img, openFiles, image_data, reply,
                   csvFile, csvFailed>>

(* lines 50-53 *)
StatFile ==
    /\ pc = "stat"
    /\ \E file_size \in Sizes :
           image_data' = Append(image_data, Rec(Head(queue), img[1], img[2], file_size))
    /\ outcome' = [outcome EXCEPT ![Head(queue)] = "ok"]
    /\ queue' = Tail(queue)
    /\ pc' = "loop"
    /\ UNCHANGED <<pathKind, dirEntries, img, openFiles, out, reply, csvFile,
                   csvFailed>>

(* line 58 *)
ReturnImageData ==
    /\ pc = "loop"
    /\ queue = <<>>
    /\ pc' = "display"
    /\ UNCHANGED <<pathKind, dirEntries, queue, img, openFiles, image_data,
                   outcome, out, reply, csvFile, csvFailed>>

(* display_results, lines 60-98; `return_to` is where its caller goes on *)
DisplayResults(return_to) ==
    /\ pc = "display"
    /\ out' = out \o ReportLines(image_data)
    /\ pc' = return_to
    /\ UNCHANGED <<pathKind, dirEntries, queue, img, openFiles, image_data,
                   outcome, reply, csvFile, csvFailed>>

MainDisplay == DisplayResults("confirm")

(* main, line 141 with an empty list: no prompt, no export *)
SkipPrompt ==
    /\ pc = "confirm"
    /\ image_data = <<>>
    /\ pc' = "finish"
    /\ UNCHANGED <<pathKind, dirEntries, queue, img, openFiles, image_data,
                   outcome, out, reply, csvFile, csvFailed>>

(* line 142 on a closed standard input: input() raises EOFError, uncaught *)
PromptEndOfInput ==
    /\ pc = "confirm"
    /\ image_data # <<>>
    /\ out' = out \o <<Line("prompt"), Line("traceback")>>
    /\ pc' = "crashed"
    /\ UNCHANGED <<pathKind, dirEntries, queue, img, openFiles, image_data,
                   outcome, reply, csvFile, csvFailed>>

(* lines 142-144 *)
Prompt ==
    /\ pc = "confirm"
    /\ image_data # <<>>
    /\ \E line \in Replies :
          /\ reply' = line
          /\ pc' = IF WantsExport(line) THEN "csv_call" ELSE "finish"
    /\ out' = out \o <<Line("prompt")>>
    /\ UNCHANGED <<pathKind, dirEntries, queue, img, openFiles, image_data,
                   outcome, csvFile, csvFailed>>

(* create_csv_report, lines 100-119. fail_at = 0: open() raises; fail_at = k: *)
(* writing row k raises after rows 1..k-1 were written; otherwise all rows    *)
(* are written. Every exception is caught at line 118.                         *)
CreateCsvReport ==
    /\ pc = "csv_call"
    /\ IF image_data = <<>>
       THEN UNCHANGED <<out, csvFile, csvFailed>>
       ELSE LET rows == CsvLines(image_data)
            IN  \E fail_at \in 0..(Len(image_data) + 2) :
                    IF fail_at = 0
                    THEN /\ csvFile' = csvFile
                         /\ csvFailed' = TRUE
                         /\ out' = out \o <<Line("csv_error")>>
                    ELSE IF fail_at <= Len(rows)
                    THEN /\ csvFile' = [exists |-> TRUE,
                                        rows |-> SubSeq(rows, 1, fail_at - 1)]
                         /\ csvFailed' = TRUE
                         /\ out' = out \o <<Line("csv_error")>>
                    ELSE /\ csvFile' = [exists |-> TRUE, rows |-> rows]
                         /\ csvFailed' = FALSE
                         /\ out' = out \o <<Line("csv_saved")>>
    /\ pc' = "finish"
    /\ UNCHANGED <<pathKind, dirEntries, queue, img, openFiles, image_data,
                   outcome, reply>>

(* line 146 *)
Done ==
    /\ pc = "finish"
    /\ out' = out \o <<Line("done")>>
    /\ pc' = "done"
    /\ UNCHANGED <<pathKind, dirEntries, queue, img, openFiles, image_data,
                   outcome, reply, csvFile, csvFailed>>

-----------------------------------------------------------------------------
(* A run of main *)

Init ==
    /\ pathKind \in {"missing", "dir", "notdir"}
    /\ dirEntries \in {S \in SUBSET Names : Cardinality(S) <= MaxFiles}
    /\ pathKind # "dir" => dirEntries = {}
    /\ pc = "start"
    /\ queue = <<>>
    /\ img = <<0, 0>>
    /\ openFiles = {}
    /\ image_data = <<>>
    /\ outcome = Untouched
    /\ out = <<>>
    /\ reply = <<>>
    /\ csvFile = NoFile
    /\ csvFailed = FALSE

Next ==
    \/ Banner
    \/ Scan
    \/ OpenImageFails
    \/ OpenImage
    \/ CloseImage
    \/ StatFails
    \/ StatFile
    \/ ReturnImageData
    \/ MainDisplay
    \/ SkipPrompt
    \/ PromptEndOfInput
    \/ Prompt
    \/ CreateCsvReport
    \/ Done

Spec == Init /\ [][Next]_vars

-----------------------------------------------------------------------------
(* The extension filter alone: get_png_resolutions on a directory that holds  *)
(* one entry, for every name up to MaxNameLen characters.                      *)

FilterChars == {".", "p", "n", "g", "P", "N", "G"}

InitFilter ==
    /\ pathKind = "dir"
    /\ \E n \in 1..MaxNameLen : \E f \in [1..n -> FilterChars] : dirEntries = {f}
    /\ pc = "scan"
    /\ queue = <<>>
    /\ img = <<0, 0>>
    /\ openFiles = {}
    /\ image_data = <<>>
    /\ outcome = Untouched
    /\ out = <<>>
    /\ reply = <<>>
    /\ csvFile = NoFile
    /\ csvFailed = FALSE

NextFilter == Scan

SpecFilter == InitFilter /\ [][NextFilter]_vars

-----------------------------------------------------------------------------
(* The report functions alone: display_results, then create_csv_report, on    *)
(* a record list handed to them directly.                                      *)

ReportNames == {<<"a", ".", "p", "n", "g">>, <<"B", ".", "p", "n", "g">>,
                <<"a", ".", "P", "N", "G">>}

\* a list of records with the given file names, of any widths, heights, sizes
IsShortList(data, names) ==
    \E dims \in [1..Len(names) -> (0..MaxDim) \X (0..MaxDim)] :
        \E sizes \in [1..Len(names) -> Sizes] :
            data = [i \in 1..Len(names) |->
                       Rec(names[i], dims[i][1], dims[i][2], sizes[i])]

\* image_data is a list of up to MaxRecs records with distinct file names, in
\* any order, or one record of any width and height up to MaxAspectDim
InitReport ==
    /\ pathKind = "dir"
    /\ dirEntries = {}
    /\ pc = "display"
    /\ queue = <<>>
    /\ img = <<0, 0>>
    /\ openFiles = {}
    /\ \/ \E S \in SUBSET ReportNames :
             /\ Cardinality(S) <= MaxRecs
             /\ \E names \in Listings(S) : IsShortList(image_data, names)
       \/ \E width \in (MaxDim + 1)..MaxAspectDim, height \in 0..MaxAspectDim :
             image_data = <<Rec(<<"a", ".", "p", "n", "g">>, width, height, 524288)>>
       \/ \E width \in 0..MaxDim, height \in (MaxDim + 1)..MaxAspectDim :
             image_data = <<Rec(<<"a", ".", "p", "n", "g">>, width, height, 524288)>>
    /\ outcome = Untouched
    /\ out = <<>>
    /\ reply = <<>>
    /\ csvFile = NoFile
    /\ csvFailed = FALSE

ReportDisplay == DisplayResults("csv_call")

NextReport ==
    \/ ReportDisplay
    \/ CreateCsvReport

SpecReport == InitReport /\ [][NextReport]_vars

-----------------------------------------------------------------------------
(* Reading the state *)

A_png == <<"a", ".", "p", "n", "g">>
A_PNG == <<"a", ".", "P", "N", "G">>
B_png == <<"B", ".", "p", "n", "g">>
Dot_png == <<".", "p", "n", "g">>

OfKind(lines, k) == SelectSeq(lines, LAMBDA e : e.kind = k)

Printed(k) == \E i \in 1..Len(out) : out[i].kind = k

\* positions in out of the lines of kind k
Positions(k) == {i \in 1..Len(out) : out[i].kind = k}

FileNamesOf(lines) == [i \in 1..Len(lines) |-> lines[i].filename]

RecordNames == [i \in 1..Len(image_data) |-> image_data[i][1]]

\* the file names of the console table's rows and of the CSV's data rows
TableNames == FileNamesOf(OfKind(out, "row"))
CsvNames == FileNamesOf(OfKind(csvFile.rows, "data"))

StrictlyAscending(names) ==
    \A i, j \in 1..Len(names) : i < j => StrLess(names[i], names[j])

Candidates == {f \in dirEntries : IsCandidate(f)}

\* the export ran to its end without an exception
CsvComplete == pc \in {"finish", "done"} /\ csvFile.exists /\ ~csvFailed

-----------------------------------------------------------------------------
(* C1: in the state in which get_png_resolutions returns its list from a    *)
(* directory, a name has a record iff it is a directory entry that passed    *)
(* the filter and whose decode and stat both succeeded; that record is one   *)
(* complete tuple; each failed candidate has exactly one error line and no   *)
(* record; and no candidate was left unprocessed, whatever failed before it. *)
C1_RecordIffDecoded ==
    (pc = "display" /\ pathKind = "dir") =>
        LET errors == FileNamesOf(OfKind(out, "error_processing"))
        IN  /\ \A f \in Names :
                  /\ (\E i \in 1..Len(image_data) : image_data[i][1] = f)
                        <=> (f \in Candidates /\ outcome[f] = "ok")
                  /\ (\E i \in 1..Len(errors) : errors[i] = f)
                        <=> (f \in Candidates
                             /\ outcome[f] \in {"decode_failed", "stat_failed"})
                  /\ f \in Candidates => outcome[f] # "untouched"
                  /\ f \notin Candidates => outcome[f] = "untouched"
            /\ \A i, j \in 1..Len(image_data) :
                  i # j => image_data[i][1] # image_data[j][1]
            /\ \A i, j \in 1..Len(errors) : i # j => errors[i] # errors[j]
            /\ \A i \in 1..Len(image_data) :
                  /\ Len(image_data[i]) = 4
                  /\ image_data[i][4] \in Sizes

\* a failing candidate sorted before a succeeding one
C1_Witness ==
    /\ pc = "display"
    /\ outcome[B_png] = "decode_failed"
    /\ outcome[A_png] = "ok"
    /\ RecordNames = <<A_png>>

-----------------------------------------------------------------------------
(* C2: every run ends in normal completion, "Done!" being the last thing     *)
(* printed: no run ends by an uncaught exception.                              *)
C2_AlwaysDone ==
    /\ pc # "crashed"
    /\ pc = "done" => out[Len(out)].kind = "done"

-----------------------------------------------------------------------------
(* C3 as stated: create_csv_report, given any record list, the empty one      *)
(* included, and no write error, leaves a file that starts with the header    *)
(* row and has one data row per record.                                        *)
C3_Original ==
    (pc = "finish" /\ ~csvFailed) =>
        /\ csvFile.exists
        /\ Len(csvFile.rows) = Len(image_data) + 1
        /\ csvFile.rows[1] = CsvHeader

(* C3 amended: given a non-empty record list and no write error, the file is  *)
(* the header row followed by exactly one row per record, in input order,     *)
(* with the record's filename, width, height and size; given the empty list   *)
(* create_csv_report returns without creating the file or printing.           *)
C3_HeaderThenRows ==
    pc = "finish" =>
        /\ (image_data # <<>> /\ ~csvFailed) =>
              /\ csvFile.exists
              /\ Len(csvFile.rows) = Len(image_data) + 1
              /\ csvFile.rows[1] = CsvHeader
              /\ \A i \in 1..Len(image_data) :
                    LET row == csvFile.rows[i + 1]
                    IN  /\ row.kind = "data"
                        /\ row.filename = image_data[i][1]
                        /\ row.width = image_data[i][2]
                        /\ row.height = image_data[i][3]
                        /\ row.size = image_data[i][4]
              /\ Printed("csv_saved")
        /\ image_data = <<>> =>
              /\ csvFile = NoFile
              /\ ~csvFailed
              /\ ~Printed("csv_saved") /\ ~Printed("csv_error")

\* two records given in descending name order, written without error
C3_Witness ==
    /\ pc = "finish"
    /\ ~csvFailed
    /\ RecordNames = <<A_png, B_png>>
    /\ Len(csvFile.rows) = 3

-----------------------------------------------------------------------------
(* C4: the console table and the CSV list the same file names in the same     *)
(* order, and that order is strictly ascending by code point, so no name      *)
(* appears twice.                                                              *)
C4_SameAscendingOrder ==
    LET table == TableNames
        csv == CsvNames
    IN  /\ StrictlyAscending(table)
        /\ StrictlyAscending(csv)
        /\ CsvComplete => csv = table
        /\ pc \in {"confirm", "csv_call", "finish", "done"} => table = RecordNames

\* upper case sorts before lower case, and both outputs show it
C4_Witness ==
    /\ CsvComplete
    /\ TableNames = <<B_png, A_png>>
    /\ CsvNames = <<B_png, A_png>>

-----------------------------------------------------------------------------
\* the one line of kind k that display_results printed
ReportLine(k) == out[CHOOSE i \in 1..Len(out) : out[i].kind = k]

\* x names the first record whose area is extreme under the order `worse`
IsFirstExtreme(x, worse(_, _)) ==
    \E k \in 1..Len(image_data) :
        /\ x.filename = image_data[k][1]
        /\ x.width = image_data[k][2]
        /\ x.height = image_data[k][3]
        /\ \A i \in 1..Len(image_data) :
              ~worse(Area(image_data[k]), Area(image_data[i]))
        /\ \A i \in 1..(k - 1) : worse(Area(image_data[i]), Area(image_data[k]))

(* C5: where display_results returns from a non-empty list, the record it    *)
(* reported as largest (smallest) has an area no other record exceeds         *)
(* (undercuts), and among the records of that area it is the first in the    *)
(* list, which is sorted by file name.                                         *)
C5_StableExtrema ==
    (pc = "confirm" /\ image_data # <<>>) =>
        /\ Cardinality(Positions("largest")) = 1
        /\ Cardinality(Positions("smallest")) = 1
        /\ StrictlyAscending(RecordNames)
        /\ IsFirstExtreme(ReportLine("largest"), LAMBDA a, b : a < b)
        /\ IsFirstExtreme(ReportLine("smallest"), LAMBDA a, b : a > b)

\* two records of the same area: the first of them is reported both times
C5_Witness ==
    /\ pc = "confirm"
    /\ Len(image_data) = 2
    /\ Area(image_data[1]) = Area(image_data[2])
    /\ image_data[1][2] # image_data[2][2]
    /\ ReportLine("largest").filename = image_data[1][1]
    /\ ReportLine("smallest").filename = image_data[1][1]

-----------------------------------------------------------------------------
EndsWithPngSuffix(f) == EndsWith(f, Ext_png) \/ EndsWith(f, Ext_PNG)

\* a character other than the dot stands before the suffix
HasStem(f) == \E i \in 1..(Len(f) - 4) : f[i] # "."

Scanned == pc # "scan"

(* C6 as stated: an entry is a candidate iff its name ends with .png or .PNG, *)
(* a name that is the suffix alone included.                                   *)
C6_Original ==
    Scanned => \A f \in dirEntries : (queue = <<f>>) <=> EndsWithPngSuffix(f)

(* C6 amended: an entry is a candidate iff its name ends with the literal     *)
(* suffix .png or .PNG, matched case-sensitively, and at least one character  *)
(* before that suffix is not a dot; ".png" and "..png" are no candidates.     *)
C6_SuffixAfterStem ==
    Scanned =>
        /\ \A f \in dirEntries :
              (queue = <<f>>) <=> (EndsWithPngSuffix(f) /\ HasStem(f))
        /\ queue = <<>> <=> pc = "display"
        /\ queue # <<>> <=> pc = "loop"

\* a name with several dots is accepted
C6_Witness ==
    /\ pc = "loop"
    /\ queue = << <<".", "p", ".", "P", "N", "G">> >>

-----------------------------------------------------------------------------
IsYesWord(w) ==
    \/ Len(w) = 1 /\ w[1] \in {"y", "Y"}
    \/ Len(w) = 3 /\ w[1] \in {"y", "Y"} /\ w[2] \in {"e", "E"} /\ w[3] \in {"s", "S"}

\* the line is y or yes in any letter case, with only blanks around it
SaysYes(line) ==
    \E i, j \in 1..Len(line) :
        /\ i <= j
        /\ IsYesWord(SubSeq(line, i, j))
        /\ \A k \in 1..Len(line) : (k < i \/ k > j) => line[k] = " "

IsCsvLine(e) == e.kind \in {"csv_saved", "csv_error"}

\* create_csv_report has run: it left a file or caught an exception
ExportRan == csvFile.exists \/ csvFailed

(* C7: create_csv_report is invoked only when the whole console report and   *)
(* then the prompt have been printed, and only on a reply that is y or yes   *)
(* once trimmed and lowercased; every such reply does invoke it, and what it *)
(* prints follows the prompt; on any other reply, and in a run that shows no *)
(* prompt, it is not invoked and no CSV file is written.                      *)
C7_ExportOnlyOnYes ==
    /\ pc = "csv_call" =>
          LET report == ReportLines(image_data)
              n == Len(out)
          IN  /\ SaysYes(reply)
              /\ ~ExportRan
              /\ report # <<>>
              /\ n > Len(report)
              /\ out[n].kind = "prompt"
              /\ SubSeq(out, n - Len(report), n - 1) = report
    /\ ExportRan =>
          LET k == IF pc = "finish" THEN Len(out) ELSE Len(out) - 1
          IN  /\ pc \in {"finish", "done"}
              /\ SaysYes(reply)
              /\ IsCsvLine(out[k])
              /\ out[k - 1].kind = "prompt"
    /\ (pc \in {"finish", "done"} /\ Printed("prompt") /\ SaysYes(reply)) => ExportRan
    /\ (~Printed("prompt") \/ ~SaysYes(reply)) =>
          (pc # "csv_call" /\ csvFile = NoFile /\ ~csvFailed
           /\ \A i \in 1..Len(out) : ~IsCsvLine(out[i]))

\* a capitalised reply with a trailing blank exports
C7_Witness ==
    /\ pc = "done"
    /\ reply = <<"Y", "e", "s", " ">>
    /\ csvFile.exists
    /\ Printed("csv_saved")

-----------------------------------------------------------------------------
NothingToScan == pathKind = "missing" \/ (pathKind = "dir" /\ Candidates = {})

ReportKinds == {"report_rule", "report_title", "table_header", "table_rule", "row",
                "total_files", "total_size", "largest", "smallest", "large_count",
                "large_file"}

(* C8: on a missing path, or a directory with no entry that passes the        *)
(* filter, get_png_resolutions prints its diagnostic and returns the empty    *)
(* list without raising; display_results prints nothing; no prompt is shown   *)
(* and no CSV file is written.                                                 *)
C8_NothingToScan ==
    NothingToScan =>
        /\ pc \in {"start", "scan", "display", "confirm", "finish", "done"}
        /\ image_data = <<>>
        /\ csvFile = NoFile
        /\ ~Printed("prompt")
        /\ \A i \in 1..Len(out) : out[i].kind \notin ReportKinds
        /\ pc \notin {"start", "scan"} =>
              IF pathKind = "missing"
              THEN Cardinality(Positions("folder_not_found")) = 1
                   /\ ~Printed("no_png_found")
              ELSE Cardinality(Positions("no_png_found")) = 1
                   /\ ~Printed("folder_not_found")
        /\ pc = "done" =>
              out[Len(out)].kind = "done"
              /\ out[Len(out) - 1].kind \in {"folder_not_found", "looking_hint"}

\* a directory whose entries all fail the filter, run to the end
C8_Witness ==
    /\ pc = "done"
    /\ pathKind = "dir"
    /\ dirEntries = {Dot_png, <<"c", ".", "P", "n", "g">>}
    /\ Printed("no_png_found")

-----------------------------------------------------------------------------
\* a is the number of hundredths nearest to width / height, ties to even
IsRounded(a, width, height) ==
    /\ 2 * (100 * width - a * height) <= height
    /\ 2 * (a * height - 100 * width) <= height
    /\ (2 * (100 * width - a * height) = height \/ 2 * (a * height - 100 * width) = height)
          => a % 2 = 0

IsAspectOf(a, x) == IF x[3] = 0 THEN a = 0 ELSE IsRounded(a, x[2], x[3])

(* C9: every row of the console table and every data row of the CSV shows,   *)
(* for its record, width / height rounded to 2 decimals, and 0 when height   *)
(* is 0; so both show the same value; and whatever the heights, the report   *)
(* prints one row per record and the export, short of a write error, writes  *)
(* one row per record.                                                         *)
C9_SameAspectRatio ==
    LET table == OfKind(out, "row")
        csv == OfKind(csvFile.rows, "data")
    IN  /\ pc \in {"csv_call", "finish"} => Len(table) = Len(image_data)
        /\ \A i \in 1..Len(table) : IsAspectOf(table[i].aspect, image_data[i])
        /\ \A i \in 1..Len(csv) :
              /\ IsAspectOf(csv[i].aspect, image_data[i])
              /\ csv[i].aspect = table[i].aspect
        /\ (pc = "finish" /\ image_data # <<>> /\ ~csvFailed) => Len(csv) = Len(image_data)

\* 1/8 = 0.125 is a tie: both outputs show 0.12
C9_Witness ==
    /\ pc = "finish"
    /\ ~csvFailed
    /\ image_data = <<Rec(A_png, 1, 8, 524288)>>
    /\ csvFile.rows[2].aspect = 12
    /\ \E i \in 1..Len(out) : out[i].kind = "row" /\ out[i].aspect = 12

-----------------------------------------------------------------------------
(* C10: at most one image file handle is open at any moment; a handle is     *)
(* open only inside the with block of the file being read, so it is released *)
(* before the next candidate is opened and before the error line of a failed *)
(* candidate is printed, and none is open once get_png_resolutions returned. *)
C10_OneHandle ==
    /\ Cardinality(openFiles) <= 1
    /\ pc # "with_exit" => openFiles = {}
    /\ pc = "with_exit" => openFiles = {Head(queue)}

\* the second candidate is open after the first was read and recorded
C10_Witness ==
    /\ pc = "with_exit"
    /\ Len(image_data) = 1
    /\ openFiles = {A_png}

====
